---------------------------- MODULE Spec2Model ----------------------------
(***************************************************************************)
(* State-machine model of the browser client of the Hungarian electricity  *)
(* load / weather dashboard: the PlotController hierarchy                   *)
(* (PlotController, LinePlotController, MavirController, AIController,      *)
(* OmszController), PageController and the top-level setup / update /       *)
(* switchPage script.                                                       *)
(*                                                                          *)
(* Time stamps are ISO strings in the code; here they are integers counting *)
(* minutes, so the code's string comparisons of equally long ISO strings    *)
(* are integer comparisons.  A Date object is its epoch value in minutes.   *)
(* One atomic action is one run of JavaScript between two suspension        *)
(* points (an event handler up to its first pending fetch, or the           *)
(* continuation that runs when a fetch settles).                            *)
(***************************************************************************)
EXTENDS Integers, Sequences, FiniteSets, TLC

(***************************************************************************)
(* Bounds of the model (not program constants).                            *)
(***************************************************************************)
\* hours of data the server holds per source when the page loads
OmszSpanHours == 6
MavirSpanHours == 32
S2sSpanHours == 40
\* data fetches of one controller that may be outstanding together
MaxInFlight == 2
\* number of events from outside after the page was loaded: things the user
\* does (date entered, button pressed, window resized, page button clicked)
\* and new data arriving at the server
MaxEvents == 3
\* calls of update() that may be running together
MaxPolls == 1

(***************************************************************************)
(* Configuration: the objects built by the top-level script.               *)
(***************************************************************************)
Null == -1
NaT == -2

Ctl == {"omsz", "mavir", "s2s"}
Pages == {"omsz", "mavir"}

\* controllers of a page in registration order (addController calls)
PageCtls(p) == IF p = "omsz" THEN <<"omsz">> ELSE <<"mavir", "s2s">>
PageOf(c) == IF c = "omsz" THEN "omsz" ELSE "mavir"
PageOrder == <<"omsz", "mavir">>

IsLine(c) == c # "omsz"

\* constructor arguments of the three controllers
stepSize(c) == IF c = "s2s" THEN 60 ELSE 10
maxViewRange(c) == CASE c = "mavir" -> 6 [] c = "s2s" -> 16 [] OTHER -> 0
minViewRange(c) == CASE c = "mavir" -> 2 [] c = "s2s" -> 6 [] OTHER -> 0
maxWidth == 1080

(***************************************************************************)
(* Environment: the server, the browser's time zone, the window widths.    *)
(***************************************************************************)
\* getTimezoneOffset() values (UTC minus local, minutes): CET and UTC
TZOffsets == {0 - 60}
\* computed widths of a displayed plot container, in px
Widths == {300, 1080}

SrvMinDate == 10 * 1440
\* the server's latest timestamp of a source after n data updates
SrvMaxDate(c, n) ==
    SrvMinDate + n * stepSize(c) +
    60 * (CASE c = "omsz" -> OmszSpanHours [] c = "mavir" -> MavirSpanHours
            [] OTHER -> S2sSpanHours)

\* GET {base}/status after n updates: one entity with data, one without
StatusOf(c, n) ==
    << [StartDate |-> SrvMinDate, EndDate |-> SrvMaxDate(c, n)],
       [StartDate |-> NaT, EndDate |-> NaT],
       [StartDate |-> SrvMinDate + 60, EndDate |-> SrvMaxDate(c, n) - stepSize(c)] >>

\* GET {base}/{resource}?start_date=..&end_date=..: a record for every
\* step-aligned timestamp of [start, end] not later than the server's latest
DataOf(c, start, endd, n) ==
    [loaded |-> TRUE, start |-> start, endd |-> endd,
     lo |-> start,
     hi |-> IF endd < SrvMaxDate(c, n) THEN endd ELSE SrvMaxDate(c, n)]

HasRecord(c, d, t) == d.loaded /\ t % stepSize(c) = 0 /\ d.lo <= t /\ t <= d.hi

(***************************************************************************)
(* Date utilities (utility script).                                        *)
(***************************************************************************)
\* new Date(isoStringWithoutZone): the string is read as local time
ParseLocal(s, off) == s + off
\* Date.toISOString() without milliseconds: the UTC digits of the instant
localToUtcString(d) == d
\* (new Date(timeString)).getTimezoneOffset()
getTZOffset(timeString, off) == off

floorToMinutes(timeString, minutes, off) ==
    LET datetime == ParseLocal(timeString, off)
        local == datetime - off
        getMinutes == local % 60
        roundedMinutes == (getMinutes \div minutes) * minutes
        \* new Date(y, m, d, h, roundedMinutes, 0) takes local fields
        built == (local - getMinutes + roundedMinutes) + off
    IN localToUtcString(built)

addMinutesToISODate(date, minutes, off) ==
    LET datetime == ParseLocal(date, off)
    IN localToUtcString(datetime + minutes - off)

\* the UTC time stamp written into the date input as it is
ToInputValueUtc(rounded, off) == rounded

\* the date input's value for the UTC time stamp rounded: local time
ToInputValue(rounded, off) ==
    addMinutesToISODate(rounded, 0 - getTZOffset(rounded, off), off)

\* the new value of the date input
addMinutesToInputFloored(value, floorTo, minutes, off) ==
    ToInputValue(addMinutesToISODate(floorToMinutes(value, floorTo, off), minutes, off), off)

RECURSIVE calcMinMaxFrom(_, _, _, _)
calcMinMaxFrom(entries, i, mn, mx) ==
    IF i > Len(entries) THEN [minDate |-> mn, maxDate |-> mx]
    ELSE LET item == entries[i] IN
         IF item.StartDate = NaT \/ item.EndDate = NaT
         THEN calcMinMaxFrom(entries, i + 1, mn, mx)
         ELSE calcMinMaxFrom(entries, i + 1,
                             IF mn > item.StartDate THEN item.StartDate ELSE mn,
                             IF mx < item.EndDate THEN item.EndDate ELSE mx)

\* the placeholders: a text after every date, and one before every date
calcMinMaxDate(entries) == calcMinMaxFrom(entries, 1, 1000000000, 0)

\* setHours(getHours() - 2 * getTimezoneOffset() / 60) then localToUtcString
InputBound(date, off) ==
    LET d == ParseLocal(date, off)
    IN localToUtcString(d - ((2 * off) \div 60) * 60)

(***************************************************************************)
(* A controller object: the fields of PlotController, LinePlotController   *)
(* and OmszController.  The operators below take the object as s and       *)
(* return the object after the call.                                       *)
(***************************************************************************)
NoData == [loaded |-> FALSE, start |-> Null, endd |-> Null, lo |-> Null, hi |-> Null]

\* the object after its constructor
NewController(c) ==
    [lastUpdate |-> Null, statusLoaded |-> FALSE, status |-> <<>>,
     minDate |-> Null, maxDate |-> Null,
     dateInput |-> [value |-> Null, min |-> Null, max |-> Null],
     viewRange |-> maxViewRange(c),
     requestedMinDate |-> Null, requestedMaxDate |-> Null,
     data |-> NoData,
     nav |-> [forward |-> FALSE, backward |-> FALSE, dateInput |-> FALSE,
              dropdown |-> FALSE, loading |-> TRUE],
     plot |-> [drawn |-> FALSE, from |-> Null, to |-> Null]]

\* PlotController._setNavDisabled, with OmszController's override
SetNavDisabled(c, s, disabled) ==
    [s EXCEPT !.nav = [forward |-> disabled, backward |-> disabled,
                       dateInput |-> disabled,
                       dropdown |-> IF c = "omsz" THEN disabled ELSE FALSE,
                       loading |-> disabled]]

NavDisabled(c, s) ==
    s.nav.forward /\ s.nav.backward /\ s.nav.dateInput /\ (c = "omsz" => s.nav.dropdown)
NavEnabled(c, s) ==
    ~s.nav.forward /\ ~s.nav.backward /\ ~s.nav.dateInput /\ ~s.nav.dropdown

\* an updateStatus that takes every marker for a new one
EveryMarkerNew(s, marker) == TRUE

\* PlotController.updateStatus: is the marker of the index new to this object?
MarkerChanged(s, marker) == ~(s.lastUpdate = marker)

\* PlotController.updateDateInput, with the result of calcMinMaxDate
WithDates(s, result, off) ==
    [s EXCEPT !.minDate = result.minDate,
              !.maxDate = result.maxDate,
              !.dateInput.min = InputBound(result.minDate, off),
              !.dateInput.max = InputBound(result.maxDate, off)]

\* PlotController.updateDateInput
updateDateInput(s, off) == WithDates(s, calcMinMaxDate(s.status), off)

\* Math.round(num / den) for den > 0
Round(num, den) == (2 * num + den) \div (2 * den)

\* the view range LinePlotController.updatePlotAndDimensions computes
ViewRangeFor(c, width) ==
    minViewRange(c) +
    Round((maxViewRange(c) - minViewRange(c)) * (width - 300), maxWidth - 300)

\* the timestamps LinePlotController._makeLines reads: from, from+step, .. <= to
LineStamps(c, from, to) ==
    IF to < from THEN {}
    ELSE { from + k * stepSize(c) : k \in 0..((to - from) \div stepSize(c)) }

\* outcome of a render: "ok", "nodata" (the cache is null: TypeError) or "gap"
\* (a timestamp has no record: TypeError in _makeLines, Error in #makeMap)
RenderLines(c, s, from, to) ==
    IF ~s.data.loaded THEN "nodata"
    ELSE IF \E t \in LineStamps(c, from, to) : ~HasRecord(c, s.data, t) THEN "gap"
    ELSE "ok"

RenderMap(c, s, datetime) ==
    IF ~s.data.loaded THEN "nodata"
    ELSE IF ~HasRecord(c, s.data, datetime) THEN "gap"
    ELSE "ok"

Render(c, s, from, to) ==
    IF IsLine(c) THEN RenderLines(c, s, from, to) ELSE RenderMap(c, s, from)

\* Plotly.react runs only when the render did not throw
Drawn(s, render, from, to) ==
    IF render = "ok" THEN [s EXCEPT !.plot = [drawn |-> TRUE, from |-> from, to |-> to]]
    ELSE s

\* LinePlotController.updatePlot, first test: the view must not pass maxDate
ClampToMax(s, rounded, off) ==
    IF addMinutesToISODate(rounded, s.viewRange * 60, off) > s.maxDate
    THEN addMinutesToISODate(s.maxDate, 0 - s.viewRange * 60, off)
    ELSE rounded

\* LinePlotController.updatePlot, second test
ClampToMin(s, rounded, off) ==
    IF addMinutesToISODate(rounded, s.viewRange * 60, off) < s.minDate
    THEN addMinutesToISODate(s.minDate, s.viewRange * 60, off)
    ELSE rounded

\* LinePlotController.updatePlot: the centre of the view, from the date input
LineCenter(c, s, off) ==
    ClampToMin(s, ClampToMax(s, floorToMinutes(s.dateInput.value, stepSize(c), off), off), off)

\* OmszController.updatePlot: the timestamp must be one the status covers
InRangeOrMax(s, rounded) ==
    IF rounded < s.minDate \/ rounded > s.maxDate THEN s.maxDate ELSE rounded

\* OmszController.updatePlot: the displayed timestamp, from the date input
MapCenter(c, s, off) ==
    InRangeOrMax(s, floorToMinutes(s.dateInput.value, stepSize(c), off))

Center(c, s, off) == IF IsLine(c) THEN LineCenter(c, s, off) ELSE MapCenter(c, s, off)

\* the visible range [from, to] of a view centred at datetime
ViewFrom(c, s, datetime, off) ==
    IF IsLine(c) THEN addMinutesToISODate(datetime, 0 - s.viewRange * 60, off) ELSE datetime
ViewTo(c, s, datetime, off) ==
    IF IsLine(c) THEN addMinutesToISODate(datetime, s.viewRange * 60, off) ELSE datetime

\* no window was requested yet
NoWindow(s) == s.requestedMinDate = Null \/ s.requestedMaxDate = Null

\* an update that requests data whatever is cached
AlwaysRequest(c, s, from, to, force) == TRUE

\* _updateLines / #updateMap: must the data be requested (again)?
ReRequest(c, s, from, to, force) ==
    \/ NoWindow(s)
    \/ IsLine(c) /\ force
    \/ from < s.requestedMinDate
    \/ to > s.requestedMaxDate

\* the later requests end at maxDate at the latest
CapAtMax(s, hi) == IF hi > s.maxDate THEN s.maxDate ELSE hi

\* an _updateLines that asks for the first, narrow window every time
NarrowWindow(c, s, datetime, off) ==
    [min |-> addMinutesToISODate(datetime, 0 - s.viewRange * 2 * 60, off),
     max |-> addMinutesToISODate(datetime, s.viewRange * 2 * 60, off)]

\* _updateLines: the window to request, as [min, max]
LineWindow(c, s, datetime, off) ==
    IF NoWindow(s)
    THEN [min |-> addMinutesToISODate(datetime, 0 - s.viewRange * 2 * 60, off),
          max |-> addMinutesToISODate(datetime, s.viewRange * 2 * 60, off)]
    ELSE [min |-> addMinutesToISODate(datetime, 0 - s.viewRange * 4 * 60, off),
          max |-> CapAtMax(s, addMinutesToISODate(datetime, s.viewRange * 4 * 60, off))]

\* #updateMap: the window to request, as [min, max]
MapWindow(c, s, datetime, off) ==
    IF NoWindow(s)
    THEN [min |-> addMinutesToISODate(datetime, 0 - 1 * 60, off), max |-> datetime]
    ELSE [min |-> addMinutesToISODate(datetime, 0 - 3 * 60, off),
          max |-> CapAtMax(s, addMinutesToISODate(datetime, 3 * 60, off))]

Window(c, s, datetime, off) ==
    IF IsLine(c) THEN LineWindow(c, s, datetime, off) ELSE MapWindow(c, s, datetime, off)

\* the object with the window it is about to request
WithWindow(s, w) == [s EXCEPT !.requestedMinDate = w.min, !.requestedMaxDate = w.max]

\* the query of the fetch: start_date and end_date as written into the URL
RequestUrl(s) == [start_date |-> s.requestedMinDate, end_date |-> s.requestedMaxDate]

NoCall ==
    [from |-> Null, to |-> Null, url |-> [start_date |-> Null, end_date |-> Null],
     resp |-> NoData]

\* a suspended _updateLines / #updateMap call: its locals, the URL it
\* fetches and the answer of the server, which has had n updates
CallOf(c, url, from, to, n) ==
    [from |-> from, to |-> to, url |-> url,
     resp |-> DataOf(c, url.start_date, url.end_date, n)]

\* _updateLines / #updateMap when the data is requested: up to the fetch
Fetching(c, s, datetime, from, to, force, n) ==
    [s |-> SetNavDisabled(c, s, TRUE), fetch |-> TRUE,
     call |-> CallOf(c, RequestUrl(s), from, to, n),
     render |-> "none", center |-> datetime, from |-> from, to |-> to, force |-> force]

\* _updateLines / #updateMap when the cache is used: r is the render's outcome
Rendering(s, r, datetime, from, to, force) ==
    [s |-> Drawn(s, r, from, to), fetch |-> FALSE, call |-> NoCall,
     render |-> r, center |-> datetime, from |-> from, to |-> to, force |-> force]

\* _updateLines / #updateMap with its locals from and to
ViewOf(c, s, datetime, from, to, force, n, off) ==
    IF ReRequest(c, s, from, to, force)
    THEN Fetching(c, WithWindow(s, Window(c, s, datetime, off)), datetime, from, to, force, n)
    ELSE Rendering(s, Render(c, s, from, to), datetime, from, to, force)

\* _updateLines / #updateMap up to the first suspension: either the data is
\* requested (fetch, with the suspended call) or the view is rendered
UpdateView(c, s, datetime, force, n, off) ==
    ViewOf(c, s, datetime, ViewFrom(c, s, datetime, off), ViewTo(c, s, datetime, off),
           force, n, off)

\* updatePlot from the point where rounded is final: write the date input,
\* then _updateLines / #updateMap
PlotAt(c, s, rounded, force, n, off) ==
    UpdateView(c, [s EXCEPT !.dateInput.value = ToInputValue(rounded, off)],
               rounded, force, n, off)

\* LinePlotController.updatePlot(force) / OmszController.updatePlot()
UpdatePlot(c, s, force, n, off) == PlotAt(c, s, Center(c, s, off), force, n, off)

\* nothing happened: the result of a call that returned at once
Skipped(s) ==
    [s |-> s, fetch |-> FALSE, call |-> NoCall, render |-> "none",
     center |-> Null, from |-> Null, to |-> Null, force |-> FALSE]

\* an updatePlotAndDimensions that does not look at the computed width
UpdatePlotWhenHidden(c, s, displayed, width, n, off) ==
    UpdatePlot(c, [s EXCEPT !.viewRange = ViewRangeFor(c, width)], FALSE, n, off)

\* LinePlotController.updatePlotAndDimensions; displayed is FALSE when the
\* computed width of the plot container is "auto"
UpdatePlotAndDimensions(c, s, displayed, width, n, off) ==
    IF ~displayed THEN Skipped(s)
    ELSE UpdatePlot(c, [s EXCEPT !.viewRange = ViewRangeFor(c, width)], FALSE, n, off)

\* display(): LinePlotController and OmszController
Display(c, s, displayed, width, n, off) ==
    IF IsLine(c) THEN UpdatePlotAndDimensions(c, s, displayed, width, n, off)
    ELSE IF s.plot.drawn THEN UpdatePlot(c, s, FALSE, n, off)
    ELSE Skipped(s)

\* an arrival that enables the navigation and drops the answer
AnswerDropped(c, s, call) == SetNavDisabled(c, s, FALSE)

\* the object when the data arrived: cached, navigation enabled
Cached(c, s, call) == SetNavDisabled(c, [s EXCEPT !.data = call.resp], FALSE)

\* the render after the arrival, with outcome r
Arrived(s, r, call) == [s |-> Drawn(s, r, call.from, call.to), render |-> r]

\* the continuation of _updateLines / #updateMap when its fetch resolved
DataArrivedAt(c, s, call) == Arrived(s, Render(c, s, call.from, call.to), call)
DataArrived(c, s, call) == DataArrivedAt(c, Cached(c, s, call), call)

(***************************************************************************)
(* The state of the page.                                                  *)
(***************************************************************************)
VARIABLES
    tz,           \* the browser's getTimezoneOffset()
    focus,        \* the controller the user works with
    srvMarker,    \* per source: number of data updates the server has had;
                  \* the index reports it as last_<source>_update
    ctl,          \* the controller objects
    dataCalls,    \* per controller: suspended _updateLines / #updateMap calls
    statusCalls,  \* per controller: suspended updateStatus calls
    indexCalls,   \* suspended fetches of the index by setup()
    pageDisplay,  \* per page: style.display of its div
    currentPage,
    storedPage,   \* localStorage item "page"
    listening,    \* per controller: setup(index) added its event listeners
    pageReady,    \* per page: its button has the switchPage listener
    pollTimer,    \* setInterval(update, 10 s) is running
    polls,        \* number of update() calls that have not finished
    events,       \* number of events from outside so far
    log,          \* the calls made in the last step, in order, each with the
                  \* controller object before and after it
    probe         \* one call of a utility function examined on its own: its
                  \* arguments, its position and its result

pageVars == <<tz, focus, srvMarker, ctl, dataCalls, statusCalls, indexCalls, pageDisplay,
              currentPage, storedPage, listening, pageReady, pollTimer, polls,
              events, log>>

vars == <<pageVars, probe>>

\* the part of the state that handlers change, as one record
World ==
    [ctl |-> ctl, dataCalls |-> dataCalls, statusCalls |-> statusCalls,
     pageDisplay |-> pageDisplay, currentPage |-> currentPage, storedPage |-> storedPage,
     listening |-> listening, pageReady |-> pageReady, polls |-> polls,
     log |-> <<>>]

Becomes(w) ==
    /\ ctl' = w.ctl
    /\ dataCalls' = w.dataCalls
    /\ statusCalls' = w.statusCalls
    /\ pageDisplay' = w.pageDisplay
    /\ currentPage' = w.currentPage
    /\ storedPage' = w.storedPage
    /\ listening' = w.listening
    /\ pageReady' = w.pageReady
    /\ polls' = w.polls
    /\ log' = w.log

Displayed(w, c) == w.pageDisplay[PageOf(c)] = "block"

\* position of a controller in its page
PosOf(c) == IF c = "s2s" THEN 2 ELSE 1

RemoveAt(seq, i) == SubSeq(seq, 1, i - 1) \o SubSeq(seq, i + 1, Len(seq))

\* JavaScript's (key in array): true for the array's indices and "length"
InArray(key, arr) == key \in ({ ToString(i - 1) : i \in 1..Len(arr) } \cup {"length"})

\* log entry of a plot operation: updatePlot / display ("update"), the
\* continuation after the fetch ("arrive"), the rejection of the fetch
\* ("fail"); cont is the caller that awaits it: "none", "setup" or "poll"
PlotEvent(c, op, cont, force, fetch, render, center, from, to, url, before, after) ==
    [kind |-> "plot", c |-> c, op |-> op, cont |-> cont, force |-> force, fetch |-> fetch,
     render |-> render, center |-> center, from |-> from, to |-> to, url |-> url,
     before |-> before, after |-> after]

\* log entry of updateStatus: the call ("call"), the arrival of the status
\* ("arrive"), the rejection of its fetch ("fail"); returned is what the
\* caller gets: "false", "true", "pending" or "throws"; cont is the caller:
\* "setup" or "poll"
StatusEvent(c, op, cont, marker, fetch, returned, before, after) ==
    [kind |-> "status", c |-> c, op |-> op, cont |-> cont, marker |-> marker, fetch |-> fetch,
     returned |-> returned, before |-> before, after |-> after]

\* log entry of a page operation: updateControllers returned ("returned",
\* with the list it returns and the updateStatus calls it made, each with
\* what it returned), PageController.switchAway ("switchAway"), switchTo
\* ("switchTo"), a display() call of switchTo ("display", with the
\* controller), a click on a page button ("click"); before is what the
\* operation found
PageEvent(p, op, c, updated, calls, before) ==
    [kind |-> "page", p |-> p, op |-> op, c |-> c, updated |-> updated, calls |-> calls,
     before |-> before]

\* the pages as an operation finds them
Pagewise(w) ==
    [pageDisplay |-> w.pageDisplay, currentPage |-> w.currentPage,
     storedPage |-> w.storedPage]

\* the pages and the controller objects as an operation finds them
Objectwise(w) ==
    [ctl |-> w.ctl, pageDisplay |-> w.pageDisplay, currentPage |-> w.currentPage,
     storedPage |-> w.storedPage]

\* the world with one more log entry
Logging(w, e) == [w EXCEPT !.log = Append(@, e)]

(***************************************************************************)
(* Handlers, as functions from the world to the world.                     *)
(***************************************************************************)
\* the effect on the world of a plot operation r of controller c; cont says
\* who awaits the call: "none", "setup" (with its index) or "poll" (with its
\* updated list)
\* a call that returned at once is logged as "skip" with the object before
\* and after it
Plotted(w, c, r, cont, index, updated) ==
    IF r.center = Null
    THEN Logging(w, [kind |-> "skip", c |-> c, cont |-> cont, before |-> w.ctl[c],
                     after |-> r.s])
    ELSE [w EXCEPT
            !.ctl[c] = r.s,
            !.dataCalls[c] =
                IF r.fetch
                THEN Append(@, [from |-> r.call.from, to |-> r.call.to, url |-> r.call.url,
                                resp |-> r.call.resp, cont |-> cont, index |-> index,
                                updated |-> updated])
                ELSE @,
            !.log = Append(@, PlotEvent(c, "update", cont, r.force, r.fetch, r.render, r.center,
                                        r.from, r.to, r.call.url, w.ctl[c], r.s))]

\* an updateStatus that records the marker only when the status arrived
UpdateStatusMarkerLate(w, c, index, cont, updated, calls) ==
    LET s == w.ctl[c] IN
    IF ~MarkerChanged(s, index[c])
    THEN [w |-> [w EXCEPT !.log = Append(@, StatusEvent(c, "call", cont, index[c], FALSE,
                                                      "false", s, s))],
          pending |-> FALSE]
    ELSE [w |-> [w EXCEPT !.statusCalls[c] = Append(@, [cont |-> cont, index |-> index,
                                                        updated |-> updated,
                                                        calls |-> calls]),
                          !.log = Append(@, StatusEvent(c, "call", cont, index[c], TRUE,
                                                        "pending", s, s))],
          pending |-> TRUE]

\* PlotController.updateStatus(index) up to its fetch: [w, pending]
UpdateStatus(w, c, index, cont, updated, calls) ==
    LET s == w.ctl[c] IN
    IF ~MarkerChanged(s, index[c])
    THEN [w |-> [w EXCEPT !.log = Append(@, StatusEvent(c, "call", cont, index[c], FALSE,
                                                      "false", s, s))],
          pending |-> FALSE]
    ELSE LET s1 == [s EXCEPT !.lastUpdate = index[c]] IN
         [w |-> [w EXCEPT !.ctl[c] = s1,
                          !.statusCalls[c] = Append(@, [cont |-> cont, index |-> index,
                                                        updated |-> updated,
                                                        calls |-> calls]),
                          !.log = Append(@, StatusEvent(c, "call", cont, index[c], TRUE,
                                                        "pending", s, s1))],
          pending |-> TRUE]

\* PageController.switchTo: show the page, display() every controller
RECURSIVE DisplayFrom(_, _, _, _)
DisplayFrom(w, p, pos, width) ==
    IF pos > Len(PageCtls(p)) THEN w
    ELSE DisplayFrom(Plotted(Logging(w, PageEvent(p, "display", PageCtls(p)[pos],
                                                  <<>>, <<>>, <<>>)),
                             PageCtls(p)[pos],
                             Display(PageCtls(p)[pos], w.ctl[PageCtls(p)[pos]],
                                     Displayed(w, PageCtls(p)[pos]), width,
                                     srvMarker[PageCtls(p)[pos]], tz),
                             "none", <<>>, <<>>),
                     p, pos + 1, width)

SwitchTo(w, p, width) ==
    DisplayFrom(Logging([w EXCEPT !.pageDisplay[p] = "block"],
                        PageEvent(p, "switchTo", "", <<>>, <<>>, Objectwise(w))),
                p, 1, width)

\* a switchAway that leaves the page visible
LeftVisible(w, p) == Logging(w, PageEvent(p, "switchAway", "", <<>>, <<>>, Objectwise(w)))

\* PageController.switchAway
SwitchAway(w, p) ==
    Logging([w EXCEPT !.pageDisplay[p] = "none"],
            PageEvent(p, "switchAway", "", <<>>, <<>>, Objectwise(w)))

\* a callback that shows the page whichever page is current
PageSetupShown(w, p, width) == [SwitchTo(w, p, width) EXCEPT !.pageReady[p] = TRUE]

\* setup(): the callback run when a page's setupControllers resolved
PageSetupDone(w, p, width) ==
    [(IF p = w.currentPage THEN SwitchTo(w, p, width) ELSE w) EXCEPT !.pageReady[p] = TRUE]

\* the date input's value setup(index) starts from
SetupValue(c, s, off) ==
    CASE c = "omsz" -> s.dateInput.max
      [] c = "mavir" -> addMinutesToInputFloored(s.dateInput.max, stepSize(c), 0 - 60 * 24, off)
      [] OTHER -> addMinutesToInputFloored(s.dateInput.max, stepSize(c),
                                           0 - stepSize(c) * maxViewRange(c), off)

\* the plot call of setup(index): updatePlotAndDimensions() or updatePlot()
FirstPlot(c, s, displayed, width, n, off) ==
    IF IsLine(c) THEN UpdatePlotAndDimensions(c, s, displayed, width, n, off)
    ELSE UpdatePlot(c, s, FALSE, n, off)

\* MavirController.setup does not await updatePlotAndDimensions
Awaited(c) == c # "mavir"

\* a plot operation that its caller awaits does not let the caller go on now
Holds(r) == r.fetch \/ r.render \in {"gap", "nodata"}

\* setup(index) of the controllers of a page, one after the other
RECURSIVE SetupFrom(_, _, _, _)
RECURSIVE SetupAfterCall(_, _, _, _)
RECURSIVE SetupAfterStatus(_, _, _, _)
RECURSIVE SetupPlot(_, _, _, _)
RECURSIVE SetupPlotted(_, _, _, _, _)
RECURSIVE SetupResume(_, _, _, _, _)
RECURSIVE SetupFinish(_, _, _, _)

\* setup(index) of controller c from its first line
SetupFrom(w, c, index, width) ==
    SetupAfterCall(UpdateStatus(w, c, index, "setup", <<>>, <<>>), c, index, width)

\* setup(index) when updateStatus returned at once or is pending
SetupAfterCall(u, c, index, width) ==
    IF u.pending THEN u.w ELSE SetupAfterStatus(u.w, c, index, width)

\* setup(index) of controller c after its updateStatus returned
SetupAfterStatus(w, c, index, width) ==
    IF w.ctl[c].dateInput.max = Null
    THEN w   \* the date input has no max: flooring its value throws, setup rejects
    ELSE SetupPlot([w EXCEPT !.ctl[c].dateInput.value = SetupValue(c, w.ctl[c], tz)],
                   c, index, width)

\* setup(index): the first plot
SetupPlot(w, c, index, width) ==
    SetupPlotted(w, c, FirstPlot(c, w.ctl[c], Displayed(w, c), width, srvMarker[c], tz),
                 index, width)

SetupPlotted(w, c, r, index, width) ==
    SetupResume(Plotted(w, c, r, IF Awaited(c) THEN "setup" ELSE "none", index, <<>>),
                c, r, index, width)

SetupResume(w, c, r, index, width) ==
    IF Awaited(c) /\ Holds(r) THEN w ELSE SetupFinish(w, c, index, width)

\* the rest of setup(index) of controller c: listeners, then the next controller
SetupFinish(w, c, index, width) ==
    IF PosOf(c) < Len(PageCtls(PageOf(c)))
    THEN SetupFrom([w EXCEPT !.listening[c] = TRUE], PageCtls(PageOf(c))[PosOf(c) + 1],
                   index, width)
    ELSE PageSetupDone([w EXCEPT !.listening[c] = TRUE], PageOf(c), width)

\* update() has ended (returned or rejected)
PollEnded(w) == [w EXCEPT !.polls = @ - 1]

\* update(): the controller tested after stage
NextStage(stage) == IF stage = "mavir" THEN "s2s" ELSE "end"

\* update(): the redraws after the updateControllers calls; stage is the
\* controller whose test comes next
RECURSIVE PollRedraw(_, _, _)
RECURSIVE Redrawn(_, _, _, _)
RECURSIVE RedrawResume(_, _, _, _)
PollRedraw(w, stage, updated) ==
    IF stage = "end" THEN PollEnded(w)
    ELSE IF InArray(stage, updated) /\ w.currentPage = "mavir"
         THEN Redrawn(w, stage, UpdatePlot(stage, w.ctl[stage], TRUE, srvMarker[stage], tz),
                      updated)
         ELSE PollRedraw(w, NextStage(stage), updated)

\* update(): await updatePlot(true) of controller stage
Redrawn(w, stage, r, updated) ==
    RedrawResume(Plotted(w, stage, r, "poll", <<>>, updated), stage, r, updated)

RedrawResume(w, stage, r, updated) ==
    IF r.fetch THEN w
    ELSE IF Holds(r) THEN PollEnded(w)
    ELSE PollRedraw(w, NextStage(stage), updated)

\* update(): PageController.updateControllers(index) of page p from position
\* pos on, then the next page, then the redraws
\* calls lists the updateStatus calls this updateControllers call has made,
\* each with what it returned
RECURSIVE PollFrom(_, _, _, _, _, _)
RECURSIVE PollReturned(_, _, _, _)
RECURSIVE PollAfterCall(_, _, _, _, _, _)
PollFrom(w, p, pos, updated, calls, index) ==
    IF pos > Len(PageCtls(p))
    THEN PollReturned(Logging(w, PageEvent(p, "returned", "", updated, calls, <<>>)),
                      p, updated, index)
    ELSE PollAfterCall(UpdateStatus(w, PageCtls(p)[pos], index, "poll", updated, calls),
                       p, pos, updated, calls, index)

\* update() after updateControllers(index) of page p returned updated
PollReturned(w, p, updated, index) ==
    IF p = "omsz" THEN PollFrom(w, "mavir", 1, <<>>, <<>>, index)
    ELSE PollRedraw(w, "mavir", updated)

\* updateControllers(index) when updateStatus returned false or is pending
PollAfterCall(u, p, pos, updated, calls, index) ==
    IF u.pending THEN u.w
    ELSE PollFrom(u.w, p, pos + 1, updated,
                  Append(calls, [c |-> PageCtls(p)[pos], returned |-> FALSE]), index)

\* a continuation that does not push the name of the updated controller
ResumeUnlisted(w, c, call, width) ==
    IF call.cont = "setup"
    THEN SetupAfterStatus(w, c, call.index, width)
    ELSE PollFrom(w, PageOf(c), PosOf(c) + 1, call.updated,
                  Append(call.calls, [c |-> c, returned |-> TRUE]), call.index)

\* the continuation of the call that awaited updateStatus
StatusResume(w, c, call, width) ==
    IF call.cont = "setup"
    THEN SetupAfterStatus(w, c, call.index, width)
    ELSE PollFrom(w, PageOf(c), PosOf(c) + 1, Append(call.updated, c),
                  Append(call.calls, [c |-> c, returned |-> TRUE]), call.index)

\* the continuation of the call that awaited _updateLines / #updateMap, whose
\* render ended with outcome render
DataResume(w, c, call, render, width) ==
    CASE call.cont = "setup" ->
            IF render = "ok" THEN SetupFinish(w, c, call.index, width) ELSE w
      [] call.cont = "poll" ->
            IF render = "ok" THEN PollRedraw(w, NextStage(c), call.updated)
            ELSE PollEnded(w)
      [] OTHER -> w

\* the new state of the page, within the model's bounds
Commit(w) == Len(w.dataCalls[focus]) <= MaxInFlight /\ Becomes(w)

(***************************************************************************)
(* Initial state: the top-level script has run up to setup()'s fetch of    *)
(* the index (controllers and pages built, the stored page defaulted,      *)
(* every page hidden).                                                     *)
(***************************************************************************)
\* what localStorage.getItem gives for a key that is not stored
NoItem == "null"

\* the item "page" after the script defaulted it
StoredAtStart(item) == IF item = NoItem THEN "omsz" ELSE item

\* the page when its script starts, in the time zone off, with the user
\* working with controller c and the local storage holding item
Constructed(off, c, item) ==
    /\ tz = off
    /\ focus = c
    /\ srvMarker = [k \in Ctl |-> 0]
    /\ ctl = [k \in Ctl |-> NewController(k)]
    /\ dataCalls = [k \in Ctl |-> <<>>]
    /\ statusCalls = [k \in Ctl |-> <<>>]
    /\ indexCalls = <<"setup">>
    /\ pageDisplay = [p \in Pages |-> "none"]
    /\ storedPage = StoredAtStart(item)
    /\ currentPage = StoredAtStart(item)
    /\ listening = [k \in Ctl |-> FALSE]
    /\ pageReady = [p \in Pages |-> FALSE]
    /\ pollTimer = FALSE
    /\ polls = 0
    /\ events = 0
    /\ log = <<>>

Init ==
    /\ \E off \in TZOffsets, c \in Ctl, item \in {NoItem} \cup Pages : Constructed(off, c, item)
    /\ probe = [kind |-> "none"]

\* the index the server returns now
IndexNow == [c \in Ctl |-> srvMarker[c]]

\* values the user types into the date input of controller c (local time)
TypedDates(c) ==
    { t - tz : t \in { SrvMinDate - 600, SrvMinDate + 65, SrvMaxDate(c, 0) + 600 } }

(***************************************************************************)
(* Actions.                                                                *)
(***************************************************************************)
\* one more event from outside
Event ==
    /\ events < MaxEvents
    /\ events' = events + 1

\* the server receives new data of a source
ServerUpdate(c) ==
    /\ Event
    /\ srvMarker' = [srvMarker EXCEPT ![c] = @ + 1]
    /\ log' = <<>>
    /\ UNCHANGED <<probe, tz, focus, ctl, dataCalls, statusCalls, indexCalls, pageDisplay,
                   currentPage, storedPage, listening, pageReady, pollTimer, polls>>

\* setup(): the index arrived; every page starts setupControllers(index);
\* setup() resolves and the poll timer starts
SetupIndexArrive(i, width) ==
    /\ i \in 1..Len(indexCalls) /\ indexCalls[i] = "setup"
    /\ Commit(SetupFrom(SetupFrom(World, PageCtls(PageOrder[1])[1], IndexNow, width),
                        PageCtls(PageOrder[2])[1], IndexNow, width))
    /\ indexCalls' = RemoveAt(indexCalls, i)
    /\ pollTimer' = TRUE
    /\ UNCHANGED <<probe, tz, focus, srvMarker, events>>

\* update(): the interval fired and the index arrived; the calls of
\* updateStatus follow
Poll ==
    /\ pollTimer /\ polls < MaxPolls
    /\ Commit(PollFrom([World EXCEPT !.polls = @ + 1], PageOrder[1], 1, <<>>, <<>>, IndexNow))
    /\ UNCHANGED <<probe, tz, focus, srvMarker, indexCalls, pollTimer, events>>

\* setup(): fetchData(apiUrl) threw, setup() rejects and no timer is started
IndexFail(i) ==
    /\ i \in 1..Len(indexCalls)
    /\ indexCalls' = RemoveAt(indexCalls, i)
    /\ log' = <<>>
    /\ UNCHANGED <<probe, tz, focus, srvMarker, ctl, dataCalls, statusCalls, pageDisplay,
                   currentPage, storedPage, listening, pageReady, pollTimer, polls,
                   events>>

\* updateStatus after its fetch: the status is stored, the dates recomputed
NewStatus(c, s, n, off) ==
    updateDateInput([s EXCEPT !.status = StatusOf(c, n), !.statusLoaded = TRUE], off)

\* updateStatus: the status arrived; then the caller (setup or update) goes on
StatusArrive(c, i, width) ==
    /\ i \in 1..Len(statusCalls[c])
    /\ \E s \in {NewStatus(c, ctl[c], srvMarker[c], tz)} :
          Commit(StatusResume(
                   [World EXCEPT
                      !.ctl[c] = s,
                      !.statusCalls[c] = RemoveAt(@, i),
                      !.log = Append(@, StatusEvent(c, "arrive", statusCalls[c][i].cont,
                                                    statusCalls[c][i].index[c],
                                                    FALSE, "true", ctl[c], s))],
                   c, statusCalls[c][i], width))
    /\ UNCHANGED <<probe, tz, focus, srvMarker, indexCalls, pollTimer, events>>

\* an error that the awaiting update() never sees
Swallowed(w, call) == w

\* the call ended by throwing; update() ends if it awaited the call
Thrown(w, call) == IF call.cont = "poll" THEN PollEnded(w) ELSE w

\* updateStatus: fetchData threw; the error leaves updateStatus and its callers
StatusFail(c, i) ==
    /\ i \in 1..Len(statusCalls[c])
    /\ Becomes(Thrown([World EXCEPT
                         !.statusCalls[c] = RemoveAt(@, i),
                         !.log = Append(@, StatusEvent(c, "fail", statusCalls[c][i].cont,
                                                       statusCalls[c][i].index[c],
                                                       FALSE, "throws", ctl[c], ctl[c]))],
                      statusCalls[c][i]))
    /\ UNCHANGED <<probe, tz, focus, srvMarker, indexCalls, pollTimer, events>>

\* _updateLines / #updateMap: the data arrived; cache it, enable the
\* navigation, render; then the awaiting caller goes on
DataArrive(c, i, width) ==
    /\ i \in 1..Len(dataCalls[c])
    /\ \E r \in {DataArrived(c, ctl[c], dataCalls[c][i])} :
          Commit(DataResume(
                   [World EXCEPT
                      !.ctl[c] = r.s,
                      !.dataCalls[c] = RemoveAt(@, i),
                      !.log = Append(@, PlotEvent(c, "arrive", dataCalls[c][i].cont, FALSE, FALSE,
                                                  r.render, Null,
                                                  dataCalls[c][i].from, dataCalls[c][i].to,
                                                  dataCalls[c][i].url, ctl[c], r.s))],
                   c, dataCalls[c][i], r.render, width))
    /\ UNCHANGED <<probe, tz, focus, srvMarker, indexCalls, pollTimer, events>>

\* _updateLines / #updateMap: fetchData threw; the rest of the call is skipped
DataFail(c, i) ==
    /\ i \in 1..Len(dataCalls[c])
    /\ Becomes(Thrown([World EXCEPT
                         !.dataCalls[c] = RemoveAt(@, i),
                         !.log = Append(@, PlotEvent(c, "fail", dataCalls[c][i].cont, FALSE, FALSE,
                                                     "none", Null,
                                                     dataCalls[c][i].from, dataCalls[c][i].to,
                                                     dataCalls[c][i].url, ctl[c], ctl[c]))],
                      dataCalls[c][i]))
    /\ UNCHANGED <<probe, tz, focus, srvMarker, indexCalls, pollTimer, events>>

\* the user can reach the controls of c: set up and on the displayed page
Usable(c) == listening[c] /\ pageDisplay[PageOf(c)] = "block"

\* updatePlot() of c, called by an event listener
PlotIn(w, c) ==
    Plotted(w, c, UpdatePlot(c, w.ctl[c], FALSE, srvMarker[c], tz), "none", <<>>, <<>>)

\* an event listener wrote value into the date input and calls updatePlot()
ListenerPlot(c, value) == PlotIn([World EXCEPT !.ctl[c].dateInput.value = value], c)

\* "change" of the date input: the user entered value
DateChange(c, value) ==
    /\ Event
    /\ Usable(c) /\ ~ctl[c].nav.dateInput
    /\ Commit(ListenerPlot(c, value))
    /\ UNCHANGED <<probe, tz, focus, srvMarker, indexCalls, pollTimer>>

\* "mousedown" on the forward (dir = 1) or backward (dir = -1) button
Step(c, dir) ==
    /\ Event
    /\ Usable(c)
    /\ IF dir = 1 THEN ~ctl[c].nav.forward ELSE ~ctl[c].nav.backward
    /\ Commit(ListenerPlot(c, addMinutesToInputFloored(ctl[c].dateInput.value,
                                  stepSize(c), dir * stepSize(c), tz)))
    /\ UNCHANGED <<probe, tz, focus, srvMarker, indexCalls, pollTimer>>

\* the debounced "resize" handler of a line plot runs; width is the computed
\* width of its container if the page is displayed
Resize(c, width) ==
    /\ Event
    /\ listening[c] /\ IsLine(c)
    /\ Commit(Plotted(World, c,
                      UpdatePlotAndDimensions(c, ctl[c], Displayed(World, c), width,
                                              srvMarker[c], tz),
                      "none", <<>>, <<>>))
    /\ UNCHANGED <<probe, tz, focus, srvMarker, indexCalls, pollTimer>>

\* a switchPage that does not write the local storage
SwitchedUnstored(w, p, width) ==
    IF p = w.currentPage THEN w
    ELSE SwitchTo([SwitchAway(w, w.currentPage) EXCEPT !.currentPage = p], p, width)

\* switchPage: the page shown after a click on the button of page p
Switched(w, p, width) ==
    IF p = w.currentPage THEN w
    ELSE SwitchTo([SwitchAway(w, w.currentPage) EXCEPT !.currentPage = p, !.storedPage = p],
                  p, width)

\* switchPage with its log entry
Clicked(w, p, width) ==
    Switched(Logging(w, PageEvent(p, "click", "", <<>>, <<>>, Pagewise(w))), p, width)

\* switchPage: "click" on the button of page p
SwitchPage(p, width) ==
    /\ Event
    /\ pageReady[p]
    /\ Commit(Clicked(World, p, width))
    /\ UNCHANGED <<probe, tz, focus, srvMarker, indexCalls, pollTimer>>

(***************************************************************************)
(* The scenario: the user works with the controller focus.  The answers    *)
(* to the requests of the other controllers arrive only as far as the      *)
(* page of focus needs them to finish its setup; their other requests stay *)
(* outstanding and their sources get no new data.                          *)
(***************************************************************************)
\* the status answers that arrive: those of the page of focus, and, before
\* anything happens from outside, those that the setup of the electricity
\* page waits for
Wanted(c, i) ==
    \/ PageOf(c) = PageOf(focus)
    \/ /\ IsLine(c) /\ events = 0
       /\ i <= Len(statusCalls[c]) /\ statusCalls[c][i].cont = "setup"

\* a handler that does not read the width is run for one width only; only
\* the continuations of setup and the handlers of a shown page read it
ReadBy(calls, i, width) ==
    i <= Len(calls) /\ (calls[i].cont = "setup" \/ width = maxWidth)
ReadIf(shown, width) == shown \/ width = maxWidth

Next ==
    \/ ServerUpdate(focus)
    \/ \E i \in 1..1, width \in Widths : SetupIndexArrive(i, width)
    \/ Poll
    \/ \E i \in 1..1 : IndexFail(i)
    \/ \E c \in Ctl, i \in 1..(MaxPolls + 1), width \in Widths :
          Wanted(c, i) /\ ReadBy(statusCalls[c], i, width) /\ StatusArrive(c, i, width)
    \/ \E i \in 1..(MaxPolls + 1) : StatusFail(focus, i)
    \/ \E i \in 1..(MaxInFlight + 1), width \in Widths :
          ReadBy(dataCalls[focus], i, width) /\ DataArrive(focus, i, width)
    \/ \E i \in 1..(MaxInFlight + 1) : DataFail(focus, i)
    \/ \E value \in TypedDates(focus) : DateChange(focus, value)
    \/ \E dir \in {0 - 1, 1} : Step(focus, dir)
    \/ \E width \in Widths :
          ReadIf(pageDisplay[PageOf(focus)] = "block", width) /\ Resize(focus, width)
    \/ \E p \in Pages, width \in Widths :
          ReadIf(p # currentPage, width) /\ SwitchPage(p, width)

Spec == Init /\ [][Next]_vars

(***************************************************************************)
(* Overlapping poll cycles: the interval fires while earlier cycles are    *)
(* suspended at a status fetch.  The user does nothing; the server gets    *)
(* new data, status answers arrive or fail in any order.                   *)
(***************************************************************************)
\* update(): the interval fired, whether or not earlier cycles have ended
OverlappingPoll ==
    /\ pollTimer /\ polls <= MaxPolls
    /\ Commit(PollFrom([World EXCEPT !.polls = @ + 1], PageOrder[1], 1, <<>>, <<>>, IndexNow))
    /\ UNCHANGED <<probe, tz, focus, srvMarker, indexCalls, pollTimer, events>>

OverlapNext ==
    \/ ServerUpdate(focus)
    \/ \E i \in 1..1 : SetupIndexArrive(i, maxWidth)
    \/ OverlappingPoll
    \/ \E c \in Ctl, i \in 1..(MaxPolls + 2) : Wanted(c, i) /\ StatusArrive(c, i, maxWidth)
    \/ \E i \in 1..(MaxPolls + 2) : StatusFail(focus, i)

OverlapSpec == Init /\ [][OverlapNext]_vars


(***************************************************************************)
(* fetchData (utility script) as a process of its own.  The call is        *)
(* suspended at fetch(url), at the 3 s timeout and at response.json();     *)
(* the probe holds the requests sent, the responses received and the       *)
(* clock in milliseconds.                                                  *)
(***************************************************************************)
Statuses == {200, 201, 404, 429, 500}
Bodies == {"{\"last_omsz_update\":1}", "{\"Message\":\"ok\"}", "<html>"}
Latencies == {20, 3000}

\* Response.ok
Ok(status) == 200 <= status /\ status <= 299

\* JSON.parse of the text of a body; SyntaxError for a text that is not JSON
IsJson(text) == text \in {"{\"last_omsz_update\":1}", "{\"Message\":\"ok\"}"}
JsonParse(text) ==
    CASE text = "{\"last_omsz_update\":1}" -> [last_omsz_update |-> 1]
      [] text = "{\"Message\":\"ok\"}" -> [Message |-> "ok"]
      [] OTHER -> [Message |-> "SyntaxError"]

\* an Error object: new Error("Couldn't fetch " + url) of fetchData, the
\* TypeError of fetch() when no response arrives, the SyntaxError of json()
Thrower(p, name, message) ==
    [p EXCEPT !.pc = "done", !.outcome = "threw",
              !.error = [name |-> name, message |-> message]]

\* fetch(url)
Requested(p) ==
    [p EXCEPT !.pc = "fetch", !.requests = Append(@, [url |-> p.url, at |-> p.clock])]

\* a loop in place of the if: every 429 is followed by another request
RetriedAgain(p, status) == status = 429

\* if (response.status == 429) after the first fetch
Retried(p, status) == Len(p.requests) = 1 /\ status = 429

\* the code from a response to the next suspension or to the throw
Responded(p, status, body) ==
    IF Retried(p, status) THEN [p EXCEPT !.pc = "sleep"]
    ELSE IF ~Ok(status)
         THEN Thrower(p, "Error", <<"Couldn't fetch ", p.url>>)
         ELSE [p EXCEPT !.pc = "json"]

\* let response = await fetch(url): the first statement of the call
FetchSend ==
    /\ probe.kind = "fetchData" /\ probe.pc = "called"
    /\ probe' = Requested(probe)
    /\ UNCHANGED pageVars

\* a response arrives ms after the request
FetchRespond(status, body, ms) ==
    /\ probe.kind = "fetchData" /\ probe.pc = "fetch"
    /\ probe' = Responded([probe EXCEPT !.clock = @ + ms,
                                        !.responses = Append(@, [status |-> status,
                                                                 body |-> body,
                                                                 at |-> probe.clock + ms])],
                          status, body)
    /\ UNCHANGED pageVars

\* no response arrives: fetch() rejects and the call rejects with it
FetchNetworkError(ms) ==
    /\ probe.kind = "fetchData" /\ probe.pc = "fetch"
    /\ probe' = Thrower([probe EXCEPT !.clock = @ + ms], "TypeError", <<"Failed to fetch">>)
    /\ UNCHANGED pageVars

\* setTimeout(r, 3000) fires; response = await fetch(url)
FetchTimeout ==
    /\ probe.kind = "fetchData" /\ probe.pc = "sleep"
    /\ probe' = Requested([probe EXCEPT !.clock = @ + 3000])
    /\ UNCHANGED pageVars

\* return await response.json()
FetchJson ==
    /\ probe.kind = "fetchData" /\ probe.pc = "json"
    /\ \E body \in {probe.responses[Len(probe.responses)].body} :
          probe' = IF IsJson(body)
                   THEN [probe EXCEPT !.pc = "done", !.outcome = "returned",
                                      !.value = JsonParse(body)]
                   ELSE Thrower(probe, "SyntaxError", <<"Unexpected token">>)
    /\ UNCHANGED pageVars

(***************************************************************************)
(* LinePlotController.updatePlotAndDimensions: the view range it sets for  *)
(* one controller and one computed width of the plot's div.                *)
(***************************************************************************)
\* the width is "auto" when the div is not displayed: the method returns
UpdateDimensions ==
    /\ probe.kind = "updatePlotAndDimensions" /\ probe.pc = "called"
    /\ probe' = [probe EXCEPT !.pc = "done",
                              !.viewRange = IF probe.displayed
                                            THEN ViewRangeFor(probe.c, probe.width)
                                            ELSE @]
    /\ UNCHANGED pageVars

(***************************************************************************)
(* calcMinMaxDate on the texts of a status answer.  A text is the sequence *)
(* of its characters; the server writes a time stamp as                    *)
(* "YYYY-MM-DD HH:MM:SS" and a missing one as "NaT".                      *)
(***************************************************************************)
\* the characters that occur, in the order of their code units
Chars == <<" ", "-", "0", "1", "2", "3", "4", "5", "6", "7", "8", "9", ":", "N", "T", "a">>
CodeOf(ch) == CHOOSE i \in 1..Len(Chars) : Chars[i] = ch

Two(n) == <<Chars[(n \div 10) + 3], Chars[(n % 10) + 3]>>
\* the text of the time stamp st with sep between date and time
StampText(st, sep) ==
    Two(st.y \div 100) \o Two(st.y % 100) \o <<"-">> \o Two(st.mo) \o <<"-">> \o Two(st.d)
    \o <<sep>> \o Two(st.h) \o <<":">> \o Two(st.mi) \o <<":", "0", "0">>

NaTStamp == [y |-> 0, mo |-> 0, d |-> 0, h |-> 0, mi |-> 0]
NaTText == <<"N", "a", "T">>
StatusText(st) == IF st = NaTStamp THEN NaTText ELSE StampText(st, " ")

Stamps ==
    { [y |-> 2023, mo |-> 12, d |-> 31, h |-> 23, mi |-> 50],
      [y |-> 2024, mo |-> 1, d |-> 1, h |-> 0, mi |-> 0],
      [y |-> 2024, mo |-> 1, d |-> 1, h |-> 9, mi |-> 10],
      [y |-> 2024, mo |-> 1, d |-> 2, h |-> 0, mi |-> 0] }

\* a < b on strings: by code units, a proper prefix is smaller
RECURSIVE TextLess(_, _, _)
TextLess(a, b, i) ==
    IF i > Len(a) THEN i <= Len(b)
    ELSE IF i > Len(b) THEN FALSE
    ELSE IF a[i] = b[i] THEN TextLess(a, b, i + 1)
    ELSE CodeOf(a[i]) < CodeOf(b[i])

\* String.replace(ch, by) with a string pattern: the first occurrence
ReplaceFirst(s, ch, by) ==
    IF \E i \in 1..Len(s) : s[i] = ch
    THEN [s EXCEPT ![CHOOSE i \in 1..Len(s) :
                        s[i] = ch /\ \A j \in 1..(i - 1) : s[j] # ch] = by]
    ELSE s

\* the placeholders for string comparison: 28 times the digit
PlaceholderText(digit) == [i \in 1..28 |-> digit]

\* an entry with one date only is passed over as well
PassedOverBoth(item) == item.StartDate = NaTText /\ item.EndDate = NaTText

\* if (item.StartDate === "NaT" || item.EndDate === "NaT") continue
PassedOver(item) == item.StartDate = NaTText \/ item.EndDate = NaTText

RECURSIVE calcMinMaxText(_, _, _, _)
calcMinMaxText(data, i, minDate, maxDate) ==
    IF i > Len(data)
    THEN [minDate |-> ReplaceFirst(minDate, " ", "T"),
          maxDate |-> ReplaceFirst(maxDate, " ", "T")]
    ELSE IF PassedOver(data[i]) THEN calcMinMaxText(data, i + 1, minDate, maxDate)
    ELSE calcMinMaxText(data, i + 1,
                        IF TextLess(data[i].StartDate, minDate, 1)
                        THEN data[i].StartDate ELSE minDate,
                        IF TextLess(maxDate, data[i].EndDate, 1)
                        THEN data[i].EndDate ELSE maxDate)

CalcMinMaxDate ==
    /\ probe.kind = "calcMinMaxDate" /\ probe.pc = "called"
    /\ probe' = [probe EXCEPT !.pc = "done",
                              !.result = calcMinMaxText(probe.data, 1, PlaceholderText("9"),
                                                        PlaceholderText("0"))]
    /\ UNCHANGED pageVars

(***************************************************************************)
(* LinePlotController._makeLines and the plot's data: the attribute        *)
(* visible of the series of the AI plot.  Plotly.react stores the series   *)
(* as the plot's data; a click on an entry of the legend changes visible   *)
(* of that series in the data.                                             *)
(***************************************************************************)
\* the keys of aiPlotFormat
Series == <<"NetSystemLoad", "NSLP1ago", "NSLP2ago", "NSLP3ago">>

\* the string "true" that _makeLines gives visible in the first render; the
\* legend sets visible to true (here "true") or to "legendonly"
VisibleString == "'true'"

\* every series visible, whatever the plot held
AllVisible(hasData, data, i) == VisibleString

\* this._plotDiv.data ? this._plotDiv.data[i++].visible : "true"
VisibleOf(hasData, data, i) == IF hasData THEN data[i] ELSE VisibleString

\* _makeLines for any cause; when a time stamp has no record it throws
\* before a series is made
MakeLines(cause, complete) ==
    /\ probe.kind = "_makeLines"
    /\ probe' =
          IF complete
          THEN [probe EXCEPT
                  !.hasData = TRUE,
                  !.data = [i \in 1..Len(Series) |-> VisibleOf(probe.hasData, probe.data, i)],
                  !.last = [op |-> "render", cause |-> cause, hadData |-> probe.hasData,
                            before |-> probe.data]]
          ELSE [probe EXCEPT
                  !.last = [op |-> "threw", cause |-> cause, hadData |-> probe.hasData,
                            before |-> probe.data]]
    /\ UNCHANGED pageVars

\* a click on the legend entry of series i
LegendClick(i) ==
    /\ probe.kind = "_makeLines" /\ probe.hasData
    /\ probe' = [probe EXCEPT
                   !.data[i] = IF @ = "legendonly" THEN "true" ELSE "legendonly",
                   !.last = [op |-> "legend", cause |-> "", hadData |-> TRUE,
                             before |-> probe.data]]
    /\ UNCHANGED pageVars

(***************************************************************************)
(* floorToMinutes and addMinutesToInputFloored on their own, for a time    *)
(* string, a step and a time zone offset (getTimezoneOffset(), minutes).   *)
(***************************************************************************)
\* floorToMinutes(timeString, minutes), then floorToMinutes of its result
FloorToMinutes ==
    /\ probe.kind = "floorToMinutes" /\ Len(probe.results) < 2
    /\ probe' = [probe EXCEPT
                   !.results = Append(@, floorToMinutes(IF @ = <<>> THEN probe.timeString
                                                        ELSE @[Len(@)],
                                                        probe.minutes, probe.off))]
    /\ UNCHANGED pageVars

\* the listener of the forward button, then the listener of the backward
\* button: addMinutesToInputFloored(dateInput, stepSize, +stepSize / -stepSize)
AddMinutesToInput ==
    /\ probe.kind = "addMinutesToInputFloored" /\ probe.pressed < 2
    /\ probe' = [probe EXCEPT
                   !.pressed = @ + 1,
                   !.value = addMinutesToInputFloored(@, probe.step,
                                                      IF probe.pressed = 0 THEN probe.step
                                                      ELSE 0 - probe.step,
                                                      probe.off)]
    /\ UNCHANGED pageVars

(***************************************************************************)
(* The specification of the functions examined on their own.               *)
(***************************************************************************)
(***************************************************************************)
(* linearGradient of utility.js.  A colour is a sequence of four           *)
(* components; the value is the fraction num / den.  lerp multiplies by    *)
(* the fraction, so its result is given in units of 1 / den; a stop that   *)
(* is returned as it is has the unit 1.                                    *)
(***************************************************************************)
GradientSteps == 8

Gradients ==
    { <<<<0, 212, 255, 1>>, <<254, 255, 0, 1>>, <<255, 128, 0, 1>>, <<255, 0, 0, 1>>>>,
      <<<<255, 51, 0, 1>>, <<0, 255, 115, 1>>, <<28, 189, 227, 1>>, <<12, 0, 255, 1>>>> }

lerp(pointA, pointB, num, den) ==
    [unit |-> den,
     color |-> [i \in 1..4 |-> pointA[i] * den + (pointB[i] - pointA[i]) * num]]

linearGradientExtrapolated(stops, num, den) ==
    lerp(stops[1], stops[2], num * (Len(stops) - 1), den)

\* valueRatio = value / stopLength = num * (stops.length - 1) / den
linearGradient(stops, num, den) ==
    LET stopIndex == (num * (Len(stops) - 1)) \div den
    IN  IF stopIndex >= Len(stops) - 1
        THEN [unit |-> 1, color |-> stops[Len(stops)]]
        ELSE IF stopIndex < 0
        THEN [unit |-> 1, color |-> stops[1]]
        ELSE lerp(stops[stopIndex + 1], stops[stopIndex + 2],
                  (num * (Len(stops) - 1)) % den, den)

LinearGradient ==
    /\ probe.kind = "linearGradient" /\ ~probe.called
    /\ probe' = [probe EXCEPT !.called = TRUE,
                   !.result = linearGradient(probe.stops, probe.num, probe.den)]
    /\ UNCHANGED pageVars


(***************************************************************************)
(* addIntervalToButton (utility script, the version with touch events) for *)
(* the forward button of a line plot.  func steps the date input and calls *)
(* updatePlot(), which disables the button when it has to fetch; the       *)
(* arrival of the data enables it.  The probe holds button.disabled, the   *)
(* state of the interval and the last invocation of func.                  *)
(***************************************************************************)
MaxTicks == 3

\* func: addMinutesToInputFloored(dateInput, stepSize, stepSize), then
\* updatePlot(); fetch says whether _updateLines requests data
StepFunc(p, on, fetch) ==
    [p EXCEPT !.value = addMinutesToInputFloored(@, p.step, p.step, p.off),
              !.calls = @ + 1,
              !.disabled = @ \/ fetch,
              !.last = [on |-> on, disabled |-> p.disabled]]

\* "mousedown" / "touchstart": addInterval
ButtonPress ==
    /\ probe.kind = "addIntervalToButton" /\ probe.calls < MaxTicks
    /\ ~probe.disabled
    /\ \E fetch \in BOOLEAN :
          probe' = [StepFunc(probe, "press", fetch) EXCEPT !.interval = "set"]
    /\ UNCHANGED pageVars

\* the callback of setInterval: if (button.disabled) removeInterval(); func()
ButtonTick ==
    /\ probe.kind = "addIntervalToButton" /\ probe.calls < MaxTicks
    /\ probe.interval = "set"
    /\ \E fetch \in BOOLEAN :
          probe' = StepFunc([probe EXCEPT !.interval = IF probe.disabled THEN "cleared" ELSE @],
                            "tick", fetch)
    /\ UNCHANGED pageVars

\* "mouseup" / "touchend" / "mouseleave" / "touchcancel": removeInterval
ButtonRelease ==
    /\ probe.kind = "addIntervalToButton"
    /\ probe.interval # "null"
    /\ probe' = [probe EXCEPT !.interval = "cleared"]
    /\ UNCHANGED pageVars

\* the data arrived: _setNavDisabled(false)
ButtonEnabled ==
    /\ probe.kind = "addIntervalToButton"
    /\ probe.disabled
    /\ probe' = [probe EXCEPT !.disabled = FALSE]
    /\ UNCHANGED pageVars

UnitInit ==
    LET
        \* fetchData(url) when it is called
        FetchCalled(url) ==
            [kind |-> "fetchData", url |-> url, pc |-> "called", requests |-> <<>>,
             responses |-> <<>>, clock |-> 0, outcome |-> "pending", value |-> <<>>,
             error |-> <<>>]
        \* updatePlotAndDimensions when it is called
        ViewCalled(c, displayed, width) ==
            [kind |-> "updatePlotAndDimensions", pc |-> "called", c |-> c,
             displayed |-> displayed, width |-> width, viewRange |-> maxViewRange(c)]
        \* calcMinMaxDate with the status entries the server writes for the time
        \* stamps sent
        DatesCalled(sent) ==
            [kind |-> "calcMinMaxDate", pc |-> "called", sent |-> sent,
             data |-> [i \in 1..Len(sent) |-> [StartDate |-> StatusText(sent[i].StartDate),
                                               EndDate |-> StatusText(sent[i].EndDate)]],
             result |-> <<>>]
        \* the plot div before the first render
        PlotNew ==
            [kind |-> "_makeLines", hasData |-> FALSE, data |-> <<>>,
             last |-> [op |-> "none", cause |-> "", hadData |-> FALSE, before |-> <<>>]]
    IN
    /\ Constructed(0, "omsz", NoItem)
    /\ \/ probe \in { FetchCalled(url) :
                         url \in {"http://api/", "http://api/mavir/status",
                                  "http://api/omsz/logo"} }
       \/ probe \in { ViewCalled(c, TRUE, width) : c \in {"mavir", "s2s"},
                                                   width \in 100..maxWidth }
       \/ probe \in { ViewCalled(c, FALSE, 0) : c \in {"mavir", "s2s"} }
       \/ probe \in { DatesCalled(<<e>>) :
                         e \in [StartDate : Stamps \cup {NaTStamp},
                                EndDate : Stamps \cup {NaTStamp}] }
       \/ probe \in { DatesCalled(<<e1, e2>>) :
                         e1 \in [StartDate : Stamps \cup {NaTStamp},
                                 EndDate : Stamps \cup {NaTStamp}],
                         e2 \in [StartDate : Stamps \cup {NaTStamp},
                                 EndDate : Stamps \cup {NaTStamp}] }
       \/ probe = PlotNew
       \/ probe \in [kind : {"floorToMinutes"}, timeString : SrvMinDate..(SrvMinDate + 59),
                     minutes : 1..60, off : {0 - 330, 0 - 60, 0, 300}, results : {<<>>}]
       \/ probe \in { [kind |-> "addMinutesToInputFloored", original |-> v, value |-> v,
                       step |-> stepSize(c), off |-> off, pressed |-> 0] :
                         v \in SrvMinDate..(SrvMinDate + 119), c \in Ctl,
                         off \in {0 - 330, 0 - 60, 0, 300} }
       \/ probe \in { [kind |-> "linearGradient", stops |-> SubSeq(g, 1, n), num |-> num,
                       den |-> GradientSteps, called |-> FALSE,
                       result |-> [unit |-> 1, color |-> g[1]]] :
                         g \in Gradients, n \in 2..4,
                         num \in (0 - GradientSteps)..(2 * GradientSteps) }
       \/ probe \in { [kind |-> "addIntervalToButton", value |-> v, step |-> stepSize(c),
                       off |-> off, disabled |-> FALSE, interval |-> "null", calls |-> 0,
                       last |-> [on |-> "none", disabled |-> FALSE]] :
                         v \in {SrvMinDate, SrvMinDate + 7}, c \in {"mavir", "s2s"},
                         off \in {0 - 60, 0} }

UnitNext ==
    \/ FetchSend
    \/ \E status \in Statuses, body \in Bodies, ms \in Latencies :
          FetchRespond(status, body, ms)
    \/ \E ms \in Latencies : FetchNetworkError(ms)
    \/ FetchTimeout
    \/ FetchJson
    \/ UpdateDimensions
    \/ CalcMinMaxDate
    \/ FloorToMinutes
    \/ AddMinutesToInput
    \/ LinearGradient
    \/ ButtonPress
    \/ ButtonTick
    \/ ButtonRelease
    \/ ButtonEnabled
    \/ \E cause \in {"step", "date", "resize", "refetch"}, complete \in BOOLEAN :
          MakeLines(cause, complete)
    \/ \E i \in 1..Len(Series) : LegendClick(i)

UnitSpec == UnitInit /\ [][UnitNext]_vars

(***************************************************************************)
(* Properties.  They are stated over the log of the last step, which holds *)
(* every call the step made with the controller object before and after.   *)
(***************************************************************************)
Logged == { log[i] : i \in 1..Len(log) }
PlotLog == { e \in Logged : e.kind = "plot" }
StatusLog == { e \in Logged : e.kind = "status" }

\* a call of _updateLines / #updateMap that ran to its end: it rendered,
\* at once from the cache or after its data arrived
Completed(e) == e.op \in {"update", "arrive"} /\ ~e.fetch /\ e.render = "ok"

\* the cache holds the answer to the request of the recorded window
CacheCurrent(s) ==
    /\ s.data.loaded
    /\ s.data.start = s.requestedMinDate
    /\ s.data.endd = s.requestedMaxDate

\* C1: after every _updateLines of a line plot that ran to completion, the
\* visible range [from, to] lies inside the recorded requested window
VisibleInsideRequested ==
    \A e \in PlotLog :
        IsLine(e.c) /\ Completed(e) =>
            /\ e.after.requestedMinDate <= e.from
            /\ e.to <= e.after.requestedMaxDate

\* C2: a render that reads the cache of the recorded window finds a record
\* for every timestamp it reads
NoDataGap ==
    \A e \in PlotLog :
        e.render # "none" /\ CacheCurrent(e.after) => e.render = "ok"

\* C3: the navigation controls of a controller are disabled if and only if
\* a data fetch of that controller is outstanding
NavDisabledIffFetching ==
    \A c \in Ctl :
        /\ dataCalls[c] # <<>> => NavDisabled(c, ctl[c])
        /\ dataCalls[c] = <<>> => NavEnabled(c, ctl[c])

\* C4: after a failed data fetch, with no other fetch of the controller
\* outstanding, the navigation controls are enabled again
NavEnabledAfterFailure ==
    \A e \in PlotLog :
        e.op = "fail" /\ dataCalls[e.c] = <<>> => NavEnabled(e.c, ctl[e.c])

\* C5: updateStatus fetches the status if and only if the marker of the
\* index differs from the last one seen; with an equal marker it returns
\* false and changes nothing; with a new marker it records the marker, and
\* when the status arrived the status, minDate and maxDate are those of the
\* server and the call returns true
UpdateStatusContract ==
    \A e \in StatusLog :
        /\ e.op = "call" =>
              /\ e.fetch <=> e.before.lastUpdate # e.marker
              /\ ~e.fetch => e.returned = "false" /\ e.after = e.before
              /\ e.fetch => e.returned = "pending" /\ e.after.lastUpdate = e.marker
        /\ e.op = "arrive" =>
              /\ e.returned = "true"
              /\ e.after.status = StatusOf(e.c, srvMarker[e.c])
              /\ e.after.minDate = SrvMinDate
              /\ e.after.maxDate = SrvMaxDate(e.c, srvMarker[e.c])
              /\ e.after.lastUpdate = e.before.lastUpdate

\* a poll found the marker of one set-up controller unchanged and the
\* marker of another one new
StatusCalledBothWays ==
    /\ \E e \in StatusLog :
          e.op = "call" /\ e.cont = "poll" /\ ~e.fetch /\ e.before.statusLoaded
    /\ \E e \in StatusLog :
          e.op = "call" /\ e.cont = "poll" /\ e.fetch /\ e.before.statusLoaded

\* no call of update() is suspended
NoPollSuspended ==
    \A c \in Ctl :
        /\ \A i \in 1..Len(statusCalls[c]) : statusCalls[c][i].cont # "poll"
        /\ \A i \in 1..Len(dataCalls[c]) : dataCalls[c][i].cont # "poll"

\* C6: when a poll cycle ends in which updateStatus of a line plot of the
\* electricity page returned true, the plot was redrawn with
\* updatePlot(true) if and only if the electricity page is the current page
RedrawnWhenUpdated ==
    \A e \in StatusLog :
        e.op = "arrive" /\ e.cont = "poll" /\ IsLine(e.c) /\ NoPollSuspended =>
            (currentPage = "mavir" <=>
                \E p \in PlotLog : p.c = e.c /\ p.op = "update" /\ p.force)

\* the update of log entry e found a window cached and, without force, its
\* visible range inside it
ServedFromCache(e) ==
    /\ e.op = "update" /\ ~e.force
    /\ e.before.data.loaded /\ ~NoWindow(e.before)
    /\ e.before.requestedMinDate <= e.from
    /\ e.to <= e.before.requestedMaxDate

\* C7: an update that finds a window cached and, without force, its visible
\* range inside it issues no fetch, leaves the requested window, the cache
\* and the navigation controls as they were, and renders
CacheHitKeepsState ==
    \A e \in PlotLog :
        ServedFromCache(e) =>
            /\ ~e.fetch
            /\ e.after.requestedMinDate = e.before.requestedMinDate
            /\ e.after.requestedMaxDate = e.before.requestedMaxDate
            /\ e.after.data = e.before.data
            /\ e.after.nav = e.before.nav
            /\ e.render # "none"

\* a step of the user was served from the cache
CacheHitSeen ==
    \E e \in PlotLog : ServedFromCache(e) /\ e.c = focus /\ e.render = "ok" /\ events > 0

\* the smaller of two time stamps
Earlier(a, b) == IF a < b THEN a ELSE b

\* the window C8 states for the update of log entry e, in minutes
StatedWindow(e) ==
    IF NoWindow(e.before)
    THEN [start_date |-> e.center - 2 * e.after.viewRange * 60,
          end_date |-> e.center + 2 * e.after.viewRange * 60]
    ELSE [start_date |-> e.center - 4 * e.after.viewRange * 60,
          end_date |-> Earlier(e.center + 4 * e.after.viewRange * 60, e.before.maxDate)]

RequestedMaxWithinMaxDate ==
    \A c \in Ctl :
        ctl[c].requestedMaxDate # Null => ctl[c].requestedMaxDate <= ctl[c].maxDate

\* C10: after every updatePlot the visible range lies in [minDate, maxDate]
VisibleWithinDates ==
    \A e \in PlotLog :
        e.op = "update" =>
            /\ e.after.minDate <= e.from
            /\ e.to <= e.after.maxDate

PageLog == { e \in Logged : e.kind = "page" }

\* C12: at most one data fetch of a controller is outstanding at any time
OneFetchInFlight == \A c \in Ctl : Len(dataCalls[c]) <= 1

\* the answer of log entry e arrived when the cache held the answer to the
\* recorded window, which is not the window e asked for: e was issued
\* before the call that recorded the window, and resolved after it
ResolvedLast(e) ==
    /\ e.op = "arrive"
    /\ CacheCurrent(e.before)
    /\ RequestUrl(e.before) # e.url

\* C13: the answers of data fetches are applied in arrival order: every
\* answer becomes the cache and is rendered; when the call issued earlier
\* resolves last, the cache holds its answer and not the data of the
\* recorded window
ArrivalOrderApplied ==
    \A e \in PlotLog :
        e.op = "arrive" =>
            /\ e.after.data.loaded
            /\ e.after.data.start = e.url.start_date
            /\ e.after.data.endd = e.url.end_date
            /\ e.render # "none"
            /\ e.render = "ok" => e.after.plot = [drawn |-> TRUE, from |-> e.from, to |-> e.to]
            /\ ResolvedLast(e) =>
                  /\ ~CacheCurrent(e.after)
                  /\ e.after.requestedMinDate = e.before.requestedMinDate
                  /\ e.after.requestedMaxDate = e.before.requestedMaxDate

\* an answer that resolved last was rendered
ResolvedLastSeen == \E e \in PlotLog : ResolvedLast(e) /\ e.render = "ok"

\* the names of the calls that returned true, in the order of the calls
TrueNames(calls) ==
    [i \in 1..Len(SelectSeq(calls, LAMBDA x : x.returned)) |->
        SelectSeq(calls, LAMBDA x : x.returned)[i].c]

\* C14: when updateControllers returns it has called updateStatus once on
\* every controller of the page, in registration order, and it returns the
\* names of those whose updateStatus returned true, in that order
UpdateControllersContract ==
    \A e \in PageLog :
        e.op = "returned" =>
            /\ [i \in 1..Len(e.calls) |-> e.calls[i].c] = PageCtls(e.p)
            /\ e.updated = TrueNames(e.calls)

\* updateControllers of the electricity page returned the second of its two
\* controllers only
UpdatedSublistSeen ==
    \E e \in PageLog :
        e.op = "returned" /\ e.p = "mavir" /\ e.updated = <<"s2s">> /\ events > 0

\* the controllers of the display() calls logged after position i
DisplaysAfter(i) ==
    [k \in 1..Len(SelectSeq(SubSeq(log, i + 1, Len(log)),
                            LAMBDA x : x.kind = "page" /\ x.op = "display")) |->
        SelectSeq(SubSeq(log, i + 1, Len(log)),
                  LAMBDA x : x.kind = "page" /\ x.op = "display")[k].c]

\* C15: switchTo shows the page and calls display() once on each of its
\* controllers; switchAway hides the page, calls no method of a controller
\* and leaves the controllers as they were
SwitchContract ==
    \A i \in 1..Len(log) :
        log[i].kind = "page" =>
            /\ log[i].op = "switchTo" =>
                  /\ pageDisplay[log[i].p] = "block"
                  /\ DisplaysAfter(i) = PageCtls(log[i].p)
            /\ log[i].op = "switchAway" =>
                  /\ pageDisplay[log[i].p] = "none"
                  /\ i < Len(log)
                  /\ log[i + 1].kind = "page" /\ log[i + 1].op = "switchTo"
                  /\ log[i + 1].before.ctl = log[i].before.ctl
                  /\ log[i + 1].before.pageDisplay =
                        [log[i].before.pageDisplay EXCEPT ![log[i].p] = "none"]

\* the user switched from one page, which was shown, to the other
PageSwitchSeen ==
    \E e \in PageLog :
        /\ e.op = "switchAway"
        /\ e.before.pageDisplay[e.p] = "block"
        /\ e.before.ctl[focus].data.loaded

\* the calls of update() that are suspended at a fetch
SuspendedPolls ==
    UNION { { <<c, "status", i>> : i \in { j \in 1..Len(statusCalls[c]) :
                                             statusCalls[c][j].cont = "poll" } }
            \cup { <<c, "data", i>> : i \in { j \in 1..Len(dataCalls[c]) :
                                              dataCalls[c][j].cont = "poll" } }
            : c \in Ctl }

\* C16: a status fetch that fails in a poll cycle ends the cycle: nothing
\* else is called in the step (no later controller or page is polled,
\* nothing is redrawn), the failed updateStatus changes nothing, update()
\* has ended, and the interval timer keeps running
PollFailureEndsCycle ==
    \A e \in StatusLog :
        e.op = "fail" /\ e.cont = "poll" =>
            /\ log = <<e>>
            /\ e.returned = "throws"
            /\ ctl[e.c] = e.before
            /\ polls = Cardinality(SuspendedPolls)
            /\ pollTimer

\* the status fetch of the first controller of the electricity page failed
\* in a poll cycle
PollFailureSeen ==
    \E e \in StatusLog : e.op = "fail" /\ e.cont = "poll" /\ e.c = "mavir"

\* C17: the item "page" of the local storage names the current page: it is
\* "omsz" when it was absent at startup, a click on the button of another
\* page makes that page current and stored, and a click on the button of
\* the current page changes neither the item nor the current page nor the
\* visibility of a page
StoredPageIsCurrent ==
    /\ StoredAtStart(NoItem) = "omsz"
    /\ storedPage = currentPage
    /\ \A e \in PageLog :
          e.op = "click" =>
              IF e.p = e.before.currentPage
              THEN /\ currentPage = e.before.currentPage
                   /\ storedPage = e.before.storedPage
                   /\ pageDisplay = e.before.pageDisplay
              ELSE currentPage = e.p /\ storedPage = e.p

\* the user clicked the button of the page that was not the current one
OtherPageClicked ==
    \E e \in PageLog : e.op = "click" /\ e.p # e.before.currentPage

\* the last response of the call p, and whether it is the one the call
\* ends with (the first 429 is followed by the retry)
FinalResponse(p) == p.responses[Len(p.responses)]
HasFinalResponse(p) ==
    /\ p.responses # <<>>
    /\ ~(Len(p.responses) = 1 /\ p.responses[1].status = 429)

\* C11: fetchData sends at most two requests, the second only after a first
\* response of status 429 and 3000 ms after it; it returns the parsed JSON
\* of a final response that is ok, and throws an error whose message
\* holds the URL when the final response is not ok, without another request
FetchDataContract ==
    probe.kind = "fetchData" =>
        /\ Len(probe.requests) <= 2
        /\ \A i \in 1..Len(probe.requests) : probe.requests[i].url = probe.url
        /\ Len(probe.requests) = 2 =>
              /\ probe.responses[1].status = 429
              /\ probe.requests[2].at = probe.responses[1].at + 3000
        /\ (Len(probe.responses) = 1 /\ probe.responses[1].status = 429) =>
              /\ probe.pc = "sleep" \/ Len(probe.requests) = 2
              /\ probe.outcome # "returned"
        /\ probe.outcome = "returned" =>
              /\ HasFinalResponse(probe)
              /\ Ok(FinalResponse(probe).status)
              /\ probe.value = JsonParse(FinalResponse(probe).body)
        /\ HasFinalResponse(probe) =>
              /\ Len(probe.requests) = Len(probe.responses)
              /\ ~Ok(FinalResponse(probe).status) =>
                    /\ probe.pc = "done" /\ probe.outcome = "threw"
                    /\ probe.error.name = "Error"
                    /\ \E k \in 1..Len(probe.error.message) :
                          probe.error.message[k] = probe.url
              /\ (Ok(FinalResponse(probe).status) /\ IsJson(FinalResponse(probe).body)) =>
                    \/ probe.pc = "json" /\ probe.outcome = "pending"
                    \/ probe.pc = "done" /\ probe.outcome = "returned"

\* the retry was answered with 429 again and the call threw
SecondTooManyRequests ==
    /\ probe.kind = "fetchData"
    /\ Len(probe.responses) = 2
    /\ probe.responses[2].status = 429
    /\ probe.outcome = "threw"

\* C18: for a displayed width w updatePlotAndDimensions sets viewRange to
\* minViewRange + round((maxViewRange - minViewRange) * (w - 300) /
\* (maxWidth - 300)), and the result lies in [minViewRange, maxViewRange]:
\* maxViewRange at w = maxWidth, minViewRange at w = 300 and at every w
\* below 300
ViewRangeWithinBounds ==
    (probe.kind = "updatePlotAndDimensions" /\ probe.pc = "done" /\ probe.displayed) =>
        /\ probe.viewRange =
              minViewRange(probe.c) +
              Round((maxViewRange(probe.c) - minViewRange(probe.c)) * (probe.width - 300),
                    maxWidth - 300)
        /\ minViewRange(probe.c) <= probe.viewRange
        /\ probe.viewRange <= maxViewRange(probe.c)
        /\ probe.width = maxWidth => probe.viewRange = maxViewRange(probe.c)
        /\ probe.width = 300 => probe.viewRange = minViewRange(probe.c)
        /\ probe.width < 300 => probe.viewRange = minViewRange(probe.c)

\* the series that _makeLines emitted in the last step
Emitted == IF probe.last.op = "render" THEN 1..Len(Series) ELSE {}

\* C19: every series emitted by _makeLines carries the value of visible
\* that the series at its position had in the plot just before the render;
\* in the first render, when the plot has no data, every series is visible
VisibilityKept ==
    probe.kind = "_makeLines" =>
        \A i \in Emitted :
            IF probe.last.hadData
            THEN probe.data[i] = probe.last.before[i]
            ELSE probe.data[i] = VisibleString

\* a step forward rendered the plot with a series that the legend had
\* switched off, and with one it had switched on again
HiddenSeriesRendered ==
    /\ probe.kind = "_makeLines"
    /\ probe.last.op = "render" /\ probe.last.cause = "step"
    /\ \E i \in Emitted : probe.data[i] = "legendonly"
    /\ \E i \in Emitted : probe.data[i] = "true"

\* the position of a time stamp in time
Ordinal(st) == (((st.y * 12 + st.mo) * 31 + st.d) * 24 + st.h) * 60 + st.mi

\* the entries sent in which neither date is missing
Dated(sent) ==
    { i \in 1..Len(sent) : sent[i].StartDate # NaTStamp /\ sent[i].EndDate # NaTStamp }

\* C20: calcMinMaxDate returns the earliest StartDate and the latest EndDate
\* of the entries in which neither date is "NaT", each with "T" in place
\* of the space between date and time
MinMaxDateAsStated ==
    (probe.kind = "calcMinMaxDate" /\ probe.pc = "done" /\ Dated(probe.sent) # {}) =>
        /\ \E i \in Dated(probe.sent) :
              /\ \A j \in Dated(probe.sent) :
                    Ordinal(probe.sent[i].StartDate) <= Ordinal(probe.sent[j].StartDate)
              /\ probe.result.minDate = StampText(probe.sent[i].StartDate, "T")
        /\ \E i \in Dated(probe.sent) :
              /\ \A j \in Dated(probe.sent) :
                    Ordinal(probe.sent[j].EndDate) <= Ordinal(probe.sent[i].EndDate)
              /\ probe.result.maxDate = StampText(probe.sent[i].EndDate, "T")

\* the dates of the answer {A: 2024-01-01 00:00:00 .. 2024-01-02 00:00:00,
\* B: NaT .. NaT} were computed
ExampleStatusDone ==
    /\ probe.kind = "calcMinMaxDate" /\ probe.pc = "done"
    /\ Len(probe.data) = 2
    /\ probe.data[1] = [StartDate |-> <<"2", "0", "2", "4", "-", "0", "1", "-", "0", "1", " ",
                                        "0", "0", ":", "0", "0", ":", "0", "0">>,
                        EndDate |-> <<"2", "0", "2", "4", "-", "0", "1", "-", "0", "2", " ",
                                      "0", "0", ":", "0", "0", ":", "0", "0">>]
    /\ probe.data[2] = [StartDate |-> NaTText, EndDate |-> NaTText]
    /\ probe.result.minDate = <<"2", "0", "2", "4", "-", "0", "1", "-", "0", "1", "T",
                                "0", "0", ":", "0", "0", ":", "0", "0">>
    /\ probe.result.maxDate = <<"2", "0", "2", "4", "-", "0", "1", "-", "0", "2", "T",
                                "0", "0", ":", "0", "0", ":", "0", "0">>

\* C21: floorToMinutes is idempotent: applied to its own result, with the
\* same step and in the same time zone, it returns that result
FloorIdempotent ==
    (probe.kind = "floorToMinutes" /\ Len(probe.results) = 2) =>
        probe.results[2] = probe.results[1]

\* the value of the date input floored to step within its hour
FlooredValue(value, step) == value - (value % 60) + ((value % 60) \div step) * step

\* C22: a step forward followed by a step backward leaves the date input at
\* its original value floored to the step, in every time zone
StepRoundTrip ==
    (probe.kind = "addMinutesToInputFloored" /\ probe.pressed = 2) =>
        probe.value = FlooredValue(probe.original, probe.step)

\* forward and backward were pressed, in a time zone off UTC, on a value
\* that was not on the step
RoundTripOffStep ==
    /\ probe.kind = "addMinutesToInputFloored" /\ probe.pressed = 2
    /\ probe.off # 0
    /\ probe.original # FlooredValue(probe.original, probe.step)

\* C23: linearGradient returns exactly the first stop for the value 0 and
\* exactly the last stop for the value 1, and for every value below 0 or
\* above 1 the nearest endpoint stop, unchanged
GradientEndpoints ==
    probe.kind = "linearGradient" /\ probe.called =>
        LET last == probe.stops[Len(probe.stops)]
            first == probe.stops[1]
            Is(stop) == probe.result.color = [i \in 1..4 |-> stop[i] * probe.result.unit]
        IN  /\ probe.num = 0 => Is(first)
            /\ probe.num = probe.den => Is(last)
            /\ probe.num < 0 => probe.result = [unit |-> 1, color |-> first]
            /\ probe.num > probe.den => probe.result = [unit |-> 1, color |-> last]

GradientClamped ==
    /\ probe.kind = "linearGradient" /\ probe.called
    /\ probe.num > probe.den
    /\ Len(probe.stops) = 4
    /\ probe.result.color = probe.stops[4]
\* C24: a render never uses cached data that does not belong to the
\* recorded window: whenever _makeLines or #makeMap runs, the cache is
\* loaded and holds the answer to the request for the recorded window
RenderUsesRecordedWindow ==
    \A e \in PlotLog : e.render # "none" => CacheCurrent(e.after)
\* C25: whenever a call of updateStatus returns, true or false, the status
\* for the recorded marker is loaded: _status is set and so are _minDate
\* and _maxDate
StatusLoadedOnReturn ==
    \A e \in StatusLog :
        e.returned \in {"true", "false"} =>
            /\ e.after.statusLoaded
            /\ e.after.minDate # Null
            /\ e.after.maxDate # Null
\* C26: updateStatus records the marker before its status fetch resolves
\* and a failed fetch rolls nothing back: the marker stays recorded and the
\* status, minDate and maxDate keep their old values; every later call with
\* the recorded marker returns false without fetching, also when no status
\* was ever loaded, and a status is fetched only for a marker that differs
StatusFailureKeepsMarker ==
    \A e \in StatusLog :
        /\ e.op = "fail" =>
              /\ e.returned = "throws"
              /\ ctl[e.c] = e.before
              /\ e.before.lastUpdate # Null
        /\ e.op = "call" /\ e.before.lastUpdate = e.marker =>
              /\ ~e.fetch
              /\ e.returned = "false"
              /\ e.after = e.before
        /\ e.op = "call" /\ e.fetch => e.before.lastUpdate # e.marker

\* after the only status fetch of a controller failed, a poll with the same
\* marker returned false although no status is loaded
MissedStatusNotRefetched ==
    \E e \in StatusLog :
        /\ e.op = "call" /\ e.cont = "poll" /\ e.returned = "false"
        /\ ~e.before.statusLoaded
        /\ statusCalls[e.c] = <<>>
\* C27: from the moment setup() has hidden all pages, at most one page is
\* displayed and a displayed page is the current page; once the setup of
\* the current page has completed, the current page is displayed
OnePageDisplayed ==
    /\ \A p \in Pages : pageDisplay[p] = "block" => p = currentPage
    /\ pageReady[currentPage] => pageDisplay[currentPage] = "block"

\* the user clicked the button of the other page while the setup of the
\* page that was current had not completed
ClickedDuringSetup ==
    \E e \in PageLog :
        /\ e.op = "click"
        /\ e.before.currentPage # e.p
        /\ ~pageReady[e.before.currentPage]
        /\ pageDisplay[e.p] = "block"
\* a status fetch of a poll cycle that is outstanding for controller c
PollFetches(c) ==
    { i \in 1..Len(statusCalls[c]) : statusCalls[c][i].cont = "poll" }

\* C28: when overlapping poll cycles carry the same new marker for a
\* controller, the controller issues one status fetch for that marker: no
\* two outstanding status fetches of poll cycles carry the same marker
OneFetchPerMarker ==
    \A c \in Ctl : \A i, j \in PollFetches(c) :
        statusCalls[c][i].index[c] = statusCalls[c][j].index[c] => i = j
\* C29: the repeat timer of a held navigation button never invokes the step
\* function on a tick at which the button is disabled
NoStepWhileDisabled ==
    probe.kind = "addIntervalToButton" /\ probe.last.on = "tick" => ~probe.last.disabled
\* C30: a line plot whose container is not displayed is left untouched by
\* updatePlotAndDimensions, whoever calls it: in a step that finds and
\* leaves its page hidden, with no data fetch of it outstanding, viewRange,
\* the requested window, the cached data and the navigation controls stay
\* as they were and no data fetch is issued; a call that returned at once
\* changed nothing, the date input included; every plot update, and so the
\* first data fetch, happens in a step that leaves the page shown
HiddenPlotUntouched ==
    [][\A c \in Ctl :
          IsLine(c) =>
              /\ \A i \in 1..Len(log') :
                    /\ log'[i].kind = "skip" /\ log'[i].c = c =>
                          log'[i].after = log'[i].before
                    /\ log'[i].kind = "plot" /\ log'[i].c = c /\ log'[i].op = "update" =>
                          pageDisplay'[PageOf(c)] = "block"
              /\ /\ pageDisplay[PageOf(c)] # "block"
                 /\ pageDisplay'[PageOf(c)] # "block"
                 /\ dataCalls[c] = <<>>
                 => /\ dataCalls'[c] = <<>>
                    /\ ctl'[c].viewRange = ctl[c].viewRange
                    /\ ctl'[c].requestedMinDate = ctl[c].requestedMinDate
                    /\ ctl'[c].requestedMaxDate = ctl[c].requestedMaxDate
                    /\ ctl'[c].data = ctl[c].data
                    /\ ctl'[c].nav = ctl[c].nav]_vars

\* the resize handler of a set-up line plot ran while its page was hidden
ResizedWhileHidden ==
    \E e \in Logged :
        /\ e.kind = "skip" /\ IsLine(e.c) /\ e.cont = "none"
        /\ listening[e.c]
        /\ e.before.statusLoaded
        /\ pageDisplay[PageOf(e.c)] # "block"
=============================================================================
